---- MODULE Spec2Model ----
(***************************************************************************)
(* TryRwLock (src/lib.rs): a readers-writer lock built on one atomic       *)
(* counter.  0 = free, usize::MAX = "usize::MAX readers or being written", *)
(* anything else = that many readers.  Every atomic operation of the code  *)
(* is one step of the model; a thread is sequential, so it starts a new    *)
(* operation only when its previous one has returned.                      *)
(***************************************************************************)
EXTENDS Integers, FiniteSets, Sequences, TLC

\* ---- bounds of the model ----
NumThreads == 2
Width == 2

Threads == 1..NumThreads
\* values of T: the two strings of the crate's tests
DataValues == {"Hello World!", "Foo"}
\* the val field of a step that reads or writes no value
NoVal == ""

\* usize: Width-bit unsigned integers, arithmetic wraps
Modulus == 2^Width
MAX == Modulus - 1
wrapping_add(a, b) == (a + b) % Modulus
wrapping_sub(a, b) == (a - b + Modulus) % Modulus

VARIABLES
    readers,     \* TryRwLock.readers : AtomicUsize
    data,        \* TryRwLock.data : UnsafeCell<T>
    pc,          \* per thread: where it is inside try_read / Debug::fmt
    local,       \* per thread: the local `readers` of try_read
    rg,          \* per thread: number of live ReadGuards it owns
    wg,          \* per thread: number of live WriteGuards it owns
    last,        \* the step just taken: operation, thread, value observed, outcome
    created,     \* the value the lock was created with
    committed    \* the wrapped value when exclusive access was last given up

vars == <<readers, data, pc, local, rg, wg, last, created, committed>>

Ev(op, t, old, ok, val) == [op |-> op, t |-> t, old |-> old, ok |-> ok, val |-> val]

RECURSIVE SumOver(_, _)
SumOver(f, S) == IF S = {} THEN 0
                 ELSE LET x == CHOOSE y \in S : TRUE
                      IN f[x] + SumOver(f, S \ {x})

TotalR == SumOver(rg, Threads)
TotalW == SumOver(wg, Threads)

\* faulty variant: a compare-and-swap that reports the previous value but never stores
CasNew_NoStore(cur, current, new) == cur

\* faulty variant: a compare-and-swap that stores even when the comparison fails
CasNew_AlwaysStore(cur, current, new) == new

\* AtomicUsize::compare_and_swap(current, new): returns the previous value,
\* stores new iff the previous value equals current
CasNew(cur, current, new) == IF cur = current THEN new ELSE cur

\* ---- TryRwLock::new ----
Init ==
    /\ readers = 0
    /\ data \in DataValues
    /\ created = data
    /\ committed = data
    /\ pc = [t \in Threads |-> "idle"]
    /\ local = [t \in Threads |-> 0]
    /\ rg = [t \in Threads |-> 0]
    /\ wg = [t \in Threads |-> 0]
    /\ last = Ev("new", 0, 0, TRUE, data)

\* ---- TryRwLock::try_read ----
\* faulty variant: try_read starts from 0 instead of loading the counter
TryReadLoadValue_Zero(cur) == wrapping_sub(cur, cur)

\* the first value of the local: self.readers.load(Acquire)
TryReadLoadValue(cur) == cur

\* let mut readers = self.readers.load(Acquire);
TryReadLoad(t) ==
    /\ pc[t] = "idle"
    /\ pc' = [pc EXCEPT ![t] = "try_read"]
    /\ local' = [local EXCEPT ![t] = TryReadLoadValue(readers)]
    /\ last' = Ev("try_read_load", t, TryReadLoadValue(readers), TRUE, NoVal)
    /\ UNCHANGED <<readers, data, rg, wg, created, committed>>

\* faulty variant: try_read refuses one reader early, at MAX-1
TryReadSaturated_Early(l) == l >= MAX - 1

\* faulty variant: try_read without the saturation test
TryReadSaturated_Never(l) == FALSE

\* faulty variant: try_read gives up on any counter that is not free
TryReadSaturated_NonZero(l) == l # 0

\* if readers == usize::MAX
TryReadSaturated(l) == l = MAX

\* faulty variant: try_read counts the new reader twice
TryReadNext_Two(l) == wrapping_add(l, 2)

\* the value try_read offers to compare_and_swap: readers + 1
TryReadNext(l) == wrapping_add(l, 1)

\* Debug::fmt, else branch: try_read returned None, "<locked>" is shown
FmtLocked(t) ==
    /\ pc[t] = "fmt_try_read"
    /\ TryReadSaturated(local[t])
    /\ pc' = [pc EXCEPT ![t] = "idle"]
    /\ local' = [local EXCEPT ![t] = 0]
    /\ last' = Ev("fmt_locked", t, local[t], FALSE, NoVal)
    /\ UNCHANGED <<readers, data, rg, wg, created, committed>>

\* return None;
TryReadNone(t) ==
    /\ pc[t] = "try_read"
    /\ TryReadSaturated(local[t])
    /\ pc' = [pc EXCEPT ![t] = "idle"]
    /\ local' = [local EXCEPT ![t] = 0]
    /\ last' = Ev("try_read", t, local[t], FALSE, NoVal)
    /\ UNCHANGED <<readers, data, rg, wg, created, committed>>

\* faulty variant: the retry keeps the value it already had
TryReadRetryWith_Stale(l, observed) == l

\* readers = new_readers: the retry uses the value the compare-and-swap returned
TryReadRetryWith(l, observed) == observed

\* compare_and_swap(readers, readers + 1), then Some(ReadGuard) or retry
TryReadCas(t) ==
    /\ pc[t] \in {"try_read", "fmt_try_read"}
    /\ ~TryReadSaturated(local[t])
    /\ readers' = CasNew(readers, local[t], TryReadNext(local[t]))
    /\ IF readers = local[t]
       THEN /\ rg' = [rg EXCEPT ![t] = @ + 1]
            /\ pc' = [pc EXCEPT ![t] = IF pc[t] = "try_read" THEN "idle" ELSE "fmt_show"]
            /\ local' = [local EXCEPT ![t] = 0]
            /\ last' = Ev(IF pc[t] = "try_read" THEN "try_read" ELSE "fmt_try_read",
                          t, readers, TRUE, NoVal)
       ELSE /\ rg' = rg
            /\ pc' = pc
            /\ local' = [local EXCEPT ![t] = TryReadRetryWith(@, readers)]
            /\ last' = Ev("try_read_retry", t, readers, FALSE, NoVal)
    /\ UNCHANGED <<data, wg, created, committed>>

\* ---- TryRwLock::try_write ----
\* faulty variant: try_write takes the lock from a single reader
TryWriteExpected_OneReader == wrapping_add(0, 1)

\* faulty variant: try_write takes the lock from two readers
TryWriteExpected_TwoReaders == wrapping_add(1, 1)

\* faulty variant: try_write takes the lock from a writer
TryWriteExpected_Max == MAX

\* the value try_write expects in the counter
TryWriteExpected == 0

TryWrite(t) ==
    /\ pc[t] = "idle"
    /\ readers' = CasNew(readers, TryWriteExpected, MAX)
    /\ wg' = [wg EXCEPT ![t] = IF readers = TryWriteExpected THEN @ + 1 ELSE @]
    /\ last' = Ev("try_write", t, readers, readers = TryWriteExpected, NoVal)
    /\ UNCHANGED <<data, pc, local, rg, created, committed>>

\* ---- ReadGuard::try_upgrade ----
\* faulty variant: try_upgrade succeeds beside a second reader
TryUpgradeExpected_Two == wrapping_add(1, 1)

\* the value try_upgrade expects in the counter
TryUpgradeExpected == 1

\* faulty variant: try_upgrade loses the guard when it fails
UpgradeGuards_Lost(n, ok) == n - 1

\* faulty variant: try_upgrade does not forget the guard it consumed
UpgradeGuards_Kept(n, ok) == n

\* the ReadGuards the caller owns after try_upgrade
UpgradeGuards(n, ok) == IF ok THEN n - 1 ELSE n

TryUpgrade(t) ==
    /\ pc[t] = "idle"
    /\ rg[t] > 0
    /\ readers' = CasNew(readers, TryUpgradeExpected, MAX)
    /\ LET ok == readers = TryUpgradeExpected
       IN /\ rg' = [rg EXCEPT ![t] = UpgradeGuards(@, ok)]
          /\ wg' = [wg EXCEPT ![t] = IF ok THEN @ + 1 ELSE @]
          /\ last' = Ev("try_upgrade", t, readers, ok, NoVal)
    /\ UNCHANGED <<data, pc, local, created, committed>>

\* ---- WriteGuard::downgrade ----
\* faulty variant: downgrade releases the lock (the store of a WriteGuard drop)
DowngradeStore_Free == wrapping_sub(1, 1)

\* lock.readers.store(1, Release)
DowngradeStore == 1

Downgrade(t) ==
    /\ pc[t] = "idle"
    /\ wg[t] > 0
    /\ readers' = DowngradeStore
    /\ wg' = [wg EXCEPT ![t] = @ - 1]
    /\ rg' = [rg EXCEPT ![t] = @ + 1]
    /\ committed' = data
    /\ last' = Ev("downgrade", t, 0, TRUE, data)
    /\ UNCHANGED <<data, pc, local, created>>

\* ---- Drop for ReadGuard ----
\* faulty variant: a ReadGuard release takes two readers out of the counter
ReadGuardDrop_Two(cur) == wrapping_sub(cur, 2)

\* faulty variant: a ReadGuard release leaves the counter as it is
ReadGuardDrop_Noop(cur) == cur

\* self.lock.readers.fetch_sub(1, Release)
ReadGuardDrop(cur) == wrapping_sub(cur, 1)

DropRead(t) ==
    /\ pc[t] = "idle"
    /\ rg[t] > 0
    /\ readers' = ReadGuardDrop(readers)
    /\ rg' = [rg EXCEPT ![t] = @ - 1]
    /\ last' = Ev("drop_read", t, 0, TRUE, NoVal)
    /\ UNCHANGED <<data, pc, local, wg, created, committed>>

\* ---- Drop for WriteGuard ----
\* faulty variant: dropping a WriteGuard leaves one reader counted
WriteGuardDrop_One == DowngradeStore

\* faulty variant: dropping a WriteGuard leaves the counter as it is
WriteGuardDrop_Max == MAX

\* self.lock.readers.store(0, Release)
WriteGuardDrop == 0

DropWrite(t) ==
    /\ pc[t] = "idle"
    /\ wg[t] > 0
    /\ readers' = WriteGuardDrop
    /\ wg' = [wg EXCEPT ![t] = @ - 1]
    /\ committed' = data
    /\ last' = Ev("drop_write", t, 0, TRUE, data)
    /\ UNCHANGED <<data, pc, local, rg, created>>

\* ---- DerefMut for WriteGuard: *guard = v ----
Write(t, v) ==
    /\ pc[t] = "idle"
    /\ wg[t] > 0
    /\ data' = v
    /\ last' = Ev("write", t, 0, TRUE, v)
    /\ UNCHANGED <<readers, pc, local, rg, wg, created, committed>>

\* ---- Deref for ReadGuard / WriteGuard: &*guard ----
Deref(t) ==
    /\ pc[t] = "idle"
    /\ rg[t] > 0 \/ wg[t] > 0
    /\ last' = Ev("deref", t, 0, TRUE, data)
    /\ UNCHANGED <<readers, data, pc, local, rg, wg, created, committed>>

\* ---- TryRwLock::get_mut, TryRwLock::into_inner ----
\* &mut self / self: the caller owns the lock exclusively, so no guard borrows
\* it and no thread is inside one of its methods
Owned == TotalR = 0 /\ TotalW = 0 /\ \A t \in Threads : pc[t] = "idle"

\* *lock.get_mut() = v, by the owner (thread 0, as for new)
GetMut(v) ==
    /\ Owned
    /\ data' = v
    /\ committed' = v
    /\ last' = Ev("get_mut", 0, 0, TRUE, v)
    /\ UNCHANGED <<readers, pc, local, rg, wg, created>>

\* faulty variant: into_inner hands back a value that is not the wrapped one
IntoInnerValue_Other(d) == CHOOSE v \in DataValues : v # d

\* self.data.into_inner()
IntoInnerValue(d) == d

\* lock.into_inner(): the lock is consumed, no thread can use it afterwards
IntoInner ==
    /\ Owned
    /\ pc' = [t \in Threads |-> "dropped"]
    /\ last' = Ev("into_inner", 0, 0, TRUE, IntoInnerValue(data))
    /\ UNCHANGED <<readers, data, local, rg, wg, created, committed>>

\* ---- Debug for TryRwLock ----
\* if let Some(guard) = self.try_read(): the load of try_read
FmtStart(t) ==
    /\ pc[t] = "idle"
    /\ pc' = [pc EXCEPT ![t] = "fmt_try_read"]
    /\ local' = [local EXCEPT ![t] = TryReadLoadValue(readers)]
    /\ last' = Ev("fmt_load", t, TryReadLoadValue(readers), TRUE, NoVal)
    /\ UNCHANGED <<readers, data, rg, wg, created, committed>>

\* .field("data", &*guard): the wrapped value is read through the temporary guard
FmtShow(t) ==
    /\ pc[t] = "fmt_show"
    /\ pc' = [pc EXCEPT ![t] = "fmt_drop"]
    /\ last' = Ev("fmt_show", t, 0, TRUE, data)
    /\ UNCHANGED <<readers, data, local, rg, wg, created, committed>>

\* the temporary guard goes out of scope
FmtDrop(t) ==
    /\ pc[t] = "fmt_drop"
    /\ readers' = ReadGuardDrop(readers)
    /\ rg' = [rg EXCEPT ![t] = @ - 1]
    /\ pc' = [pc EXCEPT ![t] = "idle"]
    /\ last' = Ev("fmt_drop", t, 0, TRUE, NoVal)
    /\ UNCHANGED <<data, local, wg, created, committed>>

Next ==
    \/ \E t \in Threads : TryReadLoad(t)
    \/ \E t \in Threads : TryReadNone(t)
    \/ \E t \in Threads : TryReadCas(t)
    \/ \E t \in Threads : TryWrite(t)
    \/ \E t \in Threads : TryUpgrade(t)
    \/ \E t \in Threads : Downgrade(t)
    \/ \E t \in Threads : DropRead(t)
    \/ \E t \in Threads : DropWrite(t)
    \/ \E t \in Threads : \E v \in DataValues : Write(t, v)
    \/ \E t \in Threads : Deref(t)
    \/ \E v \in DataValues : GetMut(v)
    \/ IntoInner

\* the lock used through its methods and the guards
Spec == Init /\ [][Next]_vars

\* Debug::fmt of the lock: a try_read, a read through the temporary guard and
\* its release, by one thread
FmtNext ==
    \/ \E t \in Threads : FmtStart(t)
    \/ \E t \in Threads : FmtLocked(t)
    \/ \E t \in Threads : FmtShow(t)
    \/ \E t \in Threads : FmtDrop(t)

\* the lock used as in Spec and also formatted with {:?}
SpecFmt == Init /\ [][Next \/ FmtNext]_vars

TypeOK ==
    /\ readers \in 0..MAX
    /\ data \in DataValues
    /\ \A t \in Threads : rg[t] \in 0..MAX /\ wg[t] \in 0..1 /\ local[t] \in 0..MAX

\* ---- properties ----

\* a step that is a return of try_read by some thread
IsTryReadReturn(e) == e.op = "try_read"

\* C1: a WriteGuard and a ReadGuard are never outstanding together; a
\* try_write executed while some ReadGuard is outstanding returns None, and a
\* try_read that returns while some WriteGuard is outstanding returns None
\* (whoever owns the other guard).
C1_ReadersExcludeWriter ==
    /\ [](~(TotalR > 0 /\ TotalW > 0))
    /\ [][/\ (last'.op = "try_write" /\ TotalR > 0) => (~last'.ok /\ wg' = wg)
          /\ (IsTryReadReturn(last') /\ TotalW > 0) => (~last'.ok /\ rg' = rg)]_vars

\* a thread that owns a ReadGuard was just refused a WriteGuard
C1_Witness ==
    /\ last.op = "try_write"
    /\ ~last.ok
    /\ rg[last.t] > 0
    /\ TotalW = 0

\* C2: at most one WriteGuard is outstanding, however it was obtained; a
\* try_write executed while a WriteGuard is outstanding returns None.
C2_SingleWriter ==
    /\ [](TotalW <= 1)
    /\ [][(last'.op = "try_write" /\ TotalW > 0) => (~last'.ok /\ wg' = wg)]_vars

\* a try_write was just refused while a WriteGuard is outstanding
C2_Witness ==
    /\ last.op = "try_write"
    /\ ~last.ok
    /\ TotalW = 1

\* C3: try_upgrade returns Ok exactly when, at its compare-and-swap, the
\* caller's guard is the only ReadGuard outstanding; with two or more it
\* returns Err and the caller keeps its ReadGuard.
C3_UpgradeIffSoleReader ==
    [][last'.op = "try_upgrade" =>
         /\ last'.ok <=> (TotalR = 1 /\ rg[last'.t] = 1)
         /\ last'.ok => (wg'[last'.t] = wg[last'.t] + 1 /\ TotalR' = 0)
         /\ TotalR >= 2 => (~last'.ok /\ rg' = rg /\ wg' = wg)]_vars

\* a try_upgrade just failed because another ReadGuard is outstanding
C3_Witness ==
    /\ last.op = "try_upgrade"
    /\ ~last.ok
    /\ TotalR >= 2
    /\ rg[last.t] >= 1

\* C4: a failed try_upgrade changes nothing (counter, guards, value), the
\* caller still owns a ReadGuard, a try_write executed next is still refused,
\* and the release of a ReadGuard decrements the counter by exactly one,
\* without wrapping.
C4_FailedUpgradeNoEffect ==
    [][/\ (last'.op = "try_upgrade" /\ ~last'.ok) =>
            /\ readers' = readers
            /\ rg' = rg /\ wg' = wg
            /\ data' = data
            /\ rg'[last'.t] >= 1
       /\ (last.op = "try_upgrade" /\ ~last.ok /\ last'.op = "try_write") => ~last'.ok
       /\ last'.op = "drop_read" =>
            (readers >= 1 /\ readers' = readers - 1 /\ rg'[last'.t] = rg[last'.t] - 1)]_vars

\* a try_upgrade has just failed and every ReadGuard is still counted
C4_Witness ==
    /\ last.op = "try_upgrade"
    /\ ~last.ok
    /\ TotalW = 0
    /\ readers = TotalR
    /\ readers = last.old

\* C5: downgrade always succeeds and takes the counter from MAX to 1 in one
\* step; the lock is not free after it, a try_write is refused while the
\* resulting ReadGuard is outstanding, and a try_read that starts right after
\* the downgrade observes 1 and, if it is not interfered with, succeeds.
C5_DowngradeAtomic ==
    /\ [](\A t \in Threads : (pc[t] = "idle" /\ wg[t] > 0) => ENABLED Downgrade(t))
    /\ [](last.op = "downgrade" => (readers = 1 /\ TotalW = 0 /\ rg[last.t] >= 1))
    /\ [][/\ last'.op = "downgrade" =>
              /\ readers = MAX /\ readers' = 1
              /\ wg'[last'.t] = wg[last'.t] - 1
              /\ rg'[last'.t] = rg[last'.t] + 1
          /\ (last'.op = "try_write" /\ (last.op = "downgrade" \/ TotalR > 0)) => ~last'.ok
          /\ (last.op = "downgrade" /\ last'.op = "try_read_load") => last'.old = 1
          /\ (last.op = "try_read_load" /\ last.old = 1 /\ IsTryReadReturn(last')
                /\ last'.t = last.t) => last'.ok]_vars

\* a downgrade has just turned the only WriteGuard into the only ReadGuard
C5_Witness ==
    /\ last.op = "downgrade"
    /\ readers = 1
    /\ rg[last.t] = 1
    /\ TotalW = 0

\* C6 (as claimed): with no writer outstanding, a try_read executed while
\* MAX-1 ReadGuards are outstanding is refused with None and leaves the
\* counter at MAX-1.
C6_Claimed_ReadersBelowMax ==
    [][(IsTryReadReturn(last') /\ TotalW = 0 /\ TotalR = MAX - 1) =>
         (~last'.ok /\ readers' = MAX - 1 /\ TotalR' = MAX - 1)]_vars

\* C6 (amended): with no writer the counter is the number of ReadGuards and
\* try_read is refused only on an observed MAX: the compare-and-swap of a
\* try_read executed while n < MAX ReadGuards are outstanding and whose
\* observation is current succeeds and makes the counter n+1 (MAX when
\* n = MAX-1); a try_read that observes MAX ReadGuards returns None and leaves
\* the counter unchanged; never more than MAX ReadGuards are outstanding.
C6_ReadersUpToMax ==
    /\ [](TotalR <= MAX)
    /\ [](TotalW = 0 => readers = TotalR)
    /\ [][/\ (IsTryReadReturn(last') /\ last'.ok) =>
              /\ TotalW = 0 /\ TotalR < MAX
              /\ readers' = TotalR + 1
              /\ rg'[last'.t] = rg[last'.t] + 1
          /\ (IsTryReadReturn(last') /\ ~last'.ok) =>
              /\ last'.old = MAX
              /\ readers' = readers /\ rg' = rg
          /\ (last.op = "try_read_load" /\ last'.t = last.t /\ TotalW = 0
                /\ last'.op \in {"try_read", "try_read_retry"}) =>
              (last'.ok <=> TotalR < MAX)]_vars

\* the MAX-th ReadGuard has just been handed out
C6_Witness ==
    /\ last.op = "try_read"
    /\ last.ok
    /\ last.old = MAX - 1
    /\ TotalR = MAX
    /\ TotalW = 0
    /\ readers = MAX

\* C7 (as claimed): whenever the counter equals MAX no ReadGuard is
\* outstanding.
C7_Claimed_MaxMeansWriter ==
    readers = MAX => TotalR = 0

\* C7 (amended): whenever the counter equals MAX, either exactly one
\* WriteGuard and no ReadGuard is outstanding, or exactly MAX ReadGuards and
\* no WriteGuard are outstanding.
C7_MaxMeansWriterOrMaxReaders ==
    readers = MAX =>
        \/ TotalW = 1 /\ TotalR = 0
        \/ TotalW = 0 /\ TotalR = MAX

\* the counter is MAX after a ReadGuard was handed out while a ReadGuard of
\* another thread is outstanding
C7_Witness ==
    /\ readers = MAX
    /\ TotalW = 0
    /\ TotalR = MAX
    /\ \E t, u \in Threads : t # u /\ rg[t] > 0 /\ rg[u] > 0

\* no guard is outstanding
NoGuards == TotalR = 0 /\ TotalW = 0

\* C8: dropping a WriteGuard sets the counter to 0; dropping one of n >= 1
\* outstanding ReadGuards leaves it at n-1; whenever no guard is outstanding
\* the counter is 0, and a try_write executed then succeeds, as does a
\* try_read whose observation is current.
C8_ReleaseRestores ==
    /\ [](NoGuards => readers = 0)
    /\ [][/\ last'.op = "drop_write" => (readers' = 0 /\ NoGuards')
          /\ last'.op = "drop_read" =>
                (TotalR >= 1 /\ readers' = TotalR - 1 /\ TotalR' = TotalR - 1)
          /\ (NoGuards /\ last'.op = "try_write") => (last'.ok /\ wg'[last'.t] = 1)
          /\ (NoGuards /\ last'.op = "try_read_load") => last'.old = 0
          /\ (NoGuards /\ last.op = "try_read_load" /\ last'.t = last.t
                /\ last'.op \in {"try_read", "try_read_retry"}) =>
                (last'.ok /\ rg'[last'.t] = 1)]_vars

\* the last guard has just been released and the lock is free again
C8_Witness ==
    /\ last.op \in {"drop_read", "drop_write"}
    /\ NoGuards
    /\ readers = 0
    /\ \A t \in Threads : pc[t] = "idle"

C10_OneWriterWinsRace ==
    /\ [][(NoGuards /\ last'.op = "try_write") => last'.ok]_vars
    /\ [][(last.op = "try_write" /\ last.old = 0 /\ last'.op = "try_write"
             /\ last'.t # last.t) =>
            (last.ok /\ ~last'.ok /\ TotalW' = 1 /\ wg'[last.t] = 1)]_vars

\* two threads raced for the free lock: the second has just lost
C10_Witness ==
    /\ last.op = "try_write"
    /\ ~last.ok
    /\ last.old = MAX
    /\ \E u \in Threads : u # last.t /\ wg[u] = 1
    /\ data = created /\ committed = created

\* C11: a try_read or try_write that returns None has no effect: its last
\* atomic step (a load or a failed compare-and-swap) stores nothing, and from
\* that step to the return the step of the call leaves the counter, the
\* wrapped value and every thread's guards as they were.
C11_FailedAcquireNoEffect ==
    [][/\ (last'.op \in {"try_read", "try_write"} /\ ~last'.ok) =>
            /\ readers' = readers
            /\ data' = data /\ committed' = committed
            /\ rg' = rg /\ wg' = wg
       /\ last'.op \in {"try_read_load", "try_read_retry"} =>
            /\ readers' = readers
            /\ data' = data
            /\ rg' = rg /\ wg' = wg
       /\ (last'.op = "try_write" /\ ~last'.ok) => (last'.old = readers /\ last'.old # 0)]_vars

\* a try_read has just returned None while a WriteGuard is outstanding
C11_Witness ==
    /\ last.op = "try_read"
    /\ ~last.ok
    /\ TotalW = 1
    /\ readers = MAX
    /\ rg[last.t] = 0

\* the steps by which thread t continues a try_read it has started
TryReadStep(t) == TryReadNone(t) \/ TryReadCas(t)

\* Spec with every thread scheduled again and again while it is inside
\* try_read (the other operations are one step and have nothing to continue)
SpecFair == Spec /\ \A t \in Threads : WF_vars(TryReadStep(t))

\* a step by which a thread other than t changes the counter
OtherChanges(t) == readers' # readers /\ last'.t # t

\* C12 (as claimed): under weak fairness of the invoking thread every
\* invocation returns, in every interleaving and however often the other
\* threads acquire and release the lock meanwhile.
C12_Claimed_AlwaysReturns ==
    \A t \in Threads : (pc[t] = "try_read") ~> (pc[t] = "idle")

\* C12 (amended): try_write, try_upgrade, downgrade and the guard releases
\* return in the step that invokes them; under weak fairness of the invoking
\* thread a try_read returns unless other threads change the counter again
\* and again for ever; a thread inside try_read can always take its next
\* step, whatever guards the other threads hold.
C12_ReturnsUnlessOvertaken ==
    /\ \A t \in Threads :
          \/ (pc[t] = "try_read") ~> (pc[t] = "idle")
          \/ []<><<OtherChanges(t)>>_vars
    /\ [](\A t \in Threads : pc[t] = "try_read" => ENABLED TryReadStep(t))
    /\ [][last'.op \in {"try_write", "try_upgrade", "downgrade", "drop_read", "drop_write"}
            => (pc[last'.t] = "idle" /\ pc'[last'.t] = "idle")]_vars

\* a thread inside try_read has been overtaken and is about to retry
C12_Witness ==
    /\ last.op = "try_read_retry"
    /\ pc[last.t] = "try_read"
    /\ local[last.t] = readers
    /\ local[last.t] # MAX

\* C13: a freshly created lock is free (counter 0, no guard) and wraps the
\* value it was created with; the wrapped value changes only by a write
\* (through a WriteGuard or get_mut); into_inner returns the wrapped value, so
\* an into_inner that directly follows the creation returns the value the
\* lock was created with.
C13_NewIntoInnerRoundTrip ==
    /\ [](last.op = "new" =>
            (readers = 0 /\ NoGuards /\ data = created /\ last.val = created))
    /\ [][/\ data' # data => last'.op \in {"write", "get_mut"}
          /\ last'.op = "into_inner" => (last'.val = data /\ Owned)
          /\ (last.op = "new" /\ last'.op = "into_inner") => last'.val = created
          /\ (data = created /\ last'.op = "into_inner") => last'.val = created]_vars

\* into_inner has just returned the value the lock was created with
C13_Witness ==
    /\ last.op = "into_inner"
    /\ last.val = created
    /\ data = created
    /\ committed = created
    /\ readers = 0

\* C14: try_read returns None only when the value it observed last is MAX,
\* and it observes MAX only while a WriteGuard or MAX ReadGuards are
\* outstanding; a compare-and-swap that fails keeps the thread inside
\* try_read with the value it returned, and when that value is not MAX the
\* thread's next step is another compare-and-swap, never a None.
C14_NoneOnlyOnObservedMax ==
    [][/\ (IsTryReadReturn(last') /\ ~last'.ok) =>
            (local[last'.t] = MAX /\ last'.old = MAX)
       /\ last'.op \in {"try_read_load", "try_read_retry"} =>
            /\ pc'[last'.t] = "try_read"
            /\ local'[last'.t] = readers
            /\ last'.old = readers
            /\ last'.old = MAX => (TotalW = 1 \/ TotalR = MAX)
            /\ (TotalW = 0 /\ TotalR < MAX) => last'.old # MAX
       /\ last'.op = "try_read_retry" => local[last'.t] # readers
       /\ (last.op \in {"try_read_load", "try_read_retry"} /\ last.old # MAX
             /\ last'.t = last.t) =>
            (last'.op \in {"try_read", "try_read_retry"}
               /\ (IsTryReadReturn(last') => last'.ok))]_vars

\* a try_read was overtaken by a writer that came and went and is retrying
\* with the value it observed, which is not MAX
C14_Witness ==
    /\ last.op = "try_read_retry"
    /\ last.old = 0
    /\ pc[last.t] = "try_read"
    /\ local[last.t] = 0
    /\ committed # created
    /\ NoGuards

\* the guards of both kinds that are outstanding
TotalGuards == TotalR + TotalW

\* a conversion of a guard has just succeeded
JustConverted(e) == (e.op = "try_upgrade" /\ e.ok) \/ e.op = "downgrade"

\* C15: a successful try_upgrade takes the counter from 1 to MAX and a
\* downgrade takes it from MAX to 1, each replacing the consumed guard by the
\* new one without releasing anything (one guard before, one guard after);
\* when the thread then drops the guard it got, directly or after further
\* conversions, the counter is 0 and no guard is left.
C15_ConversionTransfersRelease ==
    [][/\ (last'.op = "try_upgrade" /\ last'.ok) =>
            /\ readers = 1 /\ readers' = MAX
            /\ TotalGuards = 1 /\ TotalGuards' = 1
            /\ rg'[last'.t] = 0 /\ wg'[last'.t] = 1
       /\ last'.op = "downgrade" =>
            /\ readers = MAX /\ readers' = 1
            /\ TotalGuards = 1 /\ TotalGuards' = 1
            /\ rg'[last'.t] = 1 /\ wg'[last'.t] = 0
       /\ (JustConverted(last) /\ last'.t = last.t
             /\ last'.op \in {"drop_read", "drop_write"}) =>
            (readers' = 0 /\ TotalGuards' = 0)
       /\ (JustConverted(last) /\ JustConverted(last')) =>
            (last'.t = last.t /\ last'.op # last.op)]_vars

\* a try_upgrade has just turned the only ReadGuard into the only WriteGuard
C15_Witness ==
    /\ JustConverted(last)
    /\ last.op = "try_upgrade"
    /\ readers = MAX
    /\ TotalGuards = 1
    /\ wg[last.t] = 1

\* the operations that go through the counter or read through a guard
LockOps ==
    {"try_read_load", "try_read_retry", "try_read", "try_write", "try_upgrade",
     "downgrade", "drop_read", "drop_write", "deref", "into_inner"}

\* C16 (as claimed): the wrapped value changes only in a step taken by the
\* thread that holds the WriteGuard.
C16_Claimed_OnlyWriterChanges ==
    [][data' # data => (last'.op = "write" /\ wg[last'.t] = 1)]_vars

\* C16 (amended): the wrapped value changes only in a write by the thread
\* that holds the WriteGuard, which is then the only guard, or in a get_mut by
\* the owner of the lock while no guard exists and no thread is inside an
\* operation; try_read, try_write, try_upgrade, downgrade, the releases and
\* the reads leave it unchanged, and it does not change while a ReadGuard is
\* outstanding.
C16_OnlyWriterOrOwnerChanges ==
    [][/\ data' # data =>
            \/ last'.op = "write" /\ wg[last'.t] = 1 /\ TotalW = 1 /\ TotalR = 0
            \/ last'.op = "get_mut" /\ Owned
       /\ last'.op \in LockOps => data' = data
       /\ last'.op = "write" => (data' = last'.val /\ wg[last'.t] = 1)
       /\ TotalR > 0 => data' = data]_vars

\* the owner has just changed the value through get_mut, no guard existing
C16_Witness ==
    /\ last.op = "get_mut"
    /\ data # created
    /\ data = last.val
    /\ NoGuards

\* C17: the counter is determined by the outstanding guards, the temporary
\* ReadGuard of a Debug formatting included: MAX while the one WriteGuard is
\* outstanding (and then no ReadGuard is), the number of ReadGuards otherwise.
C17_CounterCountsGuards ==
    /\ TotalW \in {0, 1}
    /\ TotalW = 1 => (readers = MAX /\ TotalR = 0)
    /\ TotalW = 0 => (readers = TotalR /\ TotalR <= MAX)

\* a formatting holds its temporary guard beside another ReadGuard
C17_Witness ==
    /\ \E t \in Threads : pc[t] \in {"fmt_show", "fmt_drop"} /\ rg[t] = 1
    /\ TotalR >= 2
    /\ readers = TotalR

\* a step in which try_read has executed its compare-and-swap
IsTryReadCas(e) == (e.op = "try_read" /\ e.ok) \/ e.op = "try_read_retry"

\* C18: the counter arithmetic never wraps: a ReadGuard release finds the
\* counter at 1 or more and no WriteGuard outstanding, and leaves it one
\* lower; try_read never offers MAX + 1 to its compare-and-swap, and when the
\* compare-and-swap succeeds the counter is one higher.
C18_NoWrap ==
    [][/\ last'.op = "drop_read" =>
            /\ readers >= 1 /\ TotalW = 0
            /\ readers' = readers - 1
       /\ IsTryReadCas(last') =>
            /\ local[last'.t] # MAX
            /\ TryReadNext(local[last'.t]) = local[last'.t] + 1
       /\ (last'.op = "try_read" /\ last'.ok) =>
            (readers < MAX /\ readers' = readers + 1)]_vars

\* the last ReadGuard has been released from a counter of 1
C18_Witness ==
    /\ last.op = "drop_read"
    /\ readers = 0
    /\ TotalR = 0
    /\ rg[last.t] = 0
    /\ \E t \in Threads : pc[t] = "try_read" /\ local[t] = MAX - 1

\* the operations that are a single atomic operation on the counter
OneStepOps == {"try_write", "try_upgrade", "downgrade", "drop_read", "drop_write"}

\* the steps that complete an operation which changes the counter
Completions ==
    {"try_read", "try_write", "try_upgrade", "downgrade", "drop_read", "drop_write"}

\* C19: try_write, try_upgrade, downgrade and the releases are one step of a
\* thread that is not inside any operation before or after it; inside
\* try_read every observation (the load, a failed compare-and-swap) leaves
\* the local equal to the counter, the local falls behind the counter only by
\* a step in which another thread completes an operation that changes the
\* counter, and a compare-and-swap fails only when the local has fallen
\* behind: so every failed attempt is preceded by another thread's completed
\* operation since the previous observation, and k changes by others allow at
\* most k failed attempts, k+1 attempts in all.
C19_RetryOnlyWhenOvertaken ==
    [][/\ last'.op \in OneStepOps =>
            (pc[last'.t] = "idle" /\ pc'[last'.t] = "idle")
       /\ last'.op \in {"try_read_load", "try_read_retry"} =>
            (local'[last'.t] = readers' /\ readers' = readers)
       /\ IsTryReadCas(last') => (last'.ok <=> local[last'.t] = readers)
       /\ \A t \in Threads :
            (pc[t] = "try_read" /\ pc'[t] = "try_read"
               /\ local[t] = readers /\ local'[t] # readers') =>
            /\ last'.t # t
            /\ readers' # readers
            /\ last'.op \in Completions /\ last'.ok
       /\ (last.op \in {"try_read_load", "try_read_retry"} /\ last'.t = last.t
             /\ IsTryReadCas(last')) => last'.ok]_vars

\* a compare-and-swap has just failed because another thread, which now holds
\* a guard, changed the counter
C19_Witness ==
    /\ last.op = "try_read_retry"
    /\ last.old = readers
    /\ local[last.t] = readers
    /\ \E u \in Threads : u # last.t /\ rg[u] + wg[u] > 0
    /\ rg[last.t] = 0

\* the threads that hold the temporary ReadGuard of a formatting
Formatting == {t \in Threads : pc[t] \in {"fmt_show", "fmt_drop"}}

\* the ReadGuards that callers hold themselves
OwnR == TotalR - Cardinality(Formatting)

\* C20: Debug formatting shows what its try_read decides: "<locked>" when
\* that try_read observed MAX, as it does when a WriteGuard is outstanding
\* from the formatting's load on; the wrapped value, read through the
\* temporary ReadGuard while no WriteGuard is outstanding, when its
\* compare-and-swap succeeded.  The temporary guard is counted while it lives
\* and its release, which is always possible, takes it out again, so with no
\* formatting in progress the counter is determined by the callers' guards; a
\* try_write or try_upgrade is refused with no guard but the caller's own
\* only while a formatting holds its temporary guard.
C20_FmtShowsOrLocked ==
    /\ [](\A t \in Formatting : rg[t] >= 1 /\ TotalW = 0)
    /\ [](\A t \in Threads : (pc[t] = "fmt_show" => ENABLED FmtShow(t))
                          /\ (pc[t] = "fmt_drop" => ENABLED FmtDrop(t)))
    /\ [](Formatting = {} =>
            readers = IF TotalW > 0 THEN MAX ELSE OwnR)
    /\ [][/\ last'.op = "fmt_locked" =>
              /\ last'.old = MAX /\ local[last'.t] = MAX
              /\ readers' = readers /\ rg' = rg /\ pc'[last'.t] = "idle"
          /\ last'.op = "fmt_load" => (TotalW = 1 => last'.old = MAX)
          /\ (last.op = "fmt_load" /\ TotalW = 1 /\ last'.t = last.t) =>
              last'.op = "fmt_locked"
          /\ last'.op = "fmt_try_read" =>
              /\ last'.ok /\ TotalW = 0 /\ local[last'.t] = readers
              /\ readers' = readers + 1
              /\ rg'[last'.t] = rg[last'.t] + 1
              /\ pc'[last'.t] = "fmt_show"
          /\ last'.op = "fmt_show" =>
              (last'.val = data /\ data = committed /\ data' = data)
          /\ last'.op = "fmt_drop" =>
              /\ readers >= 1 /\ readers' = readers - 1
              /\ rg'[last'.t] = rg[last'.t] - 1
              /\ pc'[last'.t] = "idle"
          /\ (last'.op = "try_write" /\ ~last'.ok /\ OwnR = 0 /\ TotalW = 0) =>
              Formatting # {}
          /\ (last'.op = "try_upgrade" /\ ~last'.ok /\ OwnR = 1 /\ TotalW = 0) =>
              Formatting # {}]_vars

\* a try_write has just been refused although no caller holds a guard: the
\* only guard is the temporary one of a formatting
C20_Witness ==
    /\ last.op = "try_write"
    /\ ~last.ok
    /\ TotalW = 0
    /\ OwnR = 0
    /\ Formatting # {}
    /\ readers = 1
====
